---- MODULE Spec2Model ----
(***************************************************************************)
(* A model of the calendar finance widget (src/main.py): the Transaction   *)
(* record and its JSON conversions, the FinanceBook ledger and its         *)
(* aggregation queries, the storage routines load_book / save_book, and    *)
(* the FinanceApp handlers that mutate the ledger (add_tx,                 *)
(* delete_selected, the year selector, Save).                              *)
(*                                                                         *)
(* Amounts are Python floats in the source.  The model keeps the amounts   *)
(* that occur integral, so that float addition is exact; the texts float() *)
(* accepts and the texts json.dumps produces are given by tables.          *)
(***************************************************************************)
EXTENDS Integers, Sequences, FiniteSets, TLC

VARIABLES
    transactions,   \* FinanceApp.book.transactions: the ledger, in insertion order
    disk,           \* the content of DATA_FILE (finance_data.json)
    selected_year,  \* FinanceApp.selected_year (tk.IntVar)
    year_values,    \* FinanceApp.year_cb["values"]: the years the selector offers
    tree,           \* the rows of FinanceApp.tx_tree, in display order
    last            \* the last handler that ran, its inputs and how it ended

vars == <<transactions, disk, selected_year, year_values, tree, last>>

(***************************************************************************)
(* Bounds of the model.                                                    *)
(***************************************************************************)
MaxLen == 3       \* add_tx is not taken once the ledger holds MaxLen transactions
MaxFileLen == 2   \* the data file read at start holds at most MaxFileLen records

(* date.today().year, read by all_years and _refresh_year_options *)
CurrentYear == 2026

(***************************************************************************)
(* Python helpers.                                                         *)
(***************************************************************************)

(* float(text): the number a text denotes, or a ValueError *)
PyFloat(s) ==
    CASE s \in {"-2", "-2.0"} -> [ok |-> TRUE, v |-> -2]
      [] s \in {"-1", "-1.0"} -> [ok |-> TRUE, v |-> -1]
      [] s \in {"0", "0.0"}   -> [ok |-> TRUE, v |-> 0]
      [] s \in {"1", "1.0"}   -> [ok |-> TRUE, v |-> 1]
      [] s \in {"2", "2.0"}   -> [ok |-> TRUE, v |-> 2]
      [] s \in {"3", "3.0"}   -> [ok |-> TRUE, v |-> 3]
      [] OTHER                -> [ok |-> FALSE, v |-> 0]

(* json.dumps of a float: the shortest repr, always with a fraction *)
FloatRepr(v) ==
    CASE v = -2 -> "-2.0"
      [] v = -1 -> "-1.0"
      [] v = 0  -> "0.0"
      [] v = 1  -> "1.0"
      [] v = 2  -> "2.0"
      [] v = 3  -> "3.0"
      [] OTHER  -> "float"

(* f"{amount:.2f}" *)
Format2(v) ==
    CASE v = -2 -> "-2.00"
      [] v = -1 -> "-1.00"
      [] v = 0  -> "0.00"
      [] v = 1  -> "1.00"
      [] v = 2  -> "2.00"
      [] v = 3  -> "3.00"
      [] OTHER  -> "float"

(* str.strip() on the texts the entry form is given *)
Strip(s) ==
    CASE s = " "      -> ""
      [] s = " Food " -> "Food"
      [] s = " Bob "  -> "Bob"
      [] OTHER        -> s

IsLeap(y) == (y % 4 = 0 /\ y % 100 # 0) \/ y % 400 = 0

DaysInMonth(y, m) ==
    IF m = 2 THEN (IF IsLeap(y) THEN 29 ELSE 28)
    ELSE IF m \in {4, 6, 9, 11} THEN 30 ELSE 31

(* datetime.fromisoformat(text).date(): text is the YYYY-MM-DD fields read  *)
(* off the string; a field out of range raises ValueError                  *)
FromIsoFormat(text) ==
    IF /\ text.y \in 1..9999
       /\ text.m \in 1..12
       /\ text.d \in 1..DaysInMonth(text.y, text.m)
    THEN [ok |-> TRUE, date |-> [year |-> text.y, month |-> text.m, day |-> text.d]]
    ELSE [ok |-> FALSE, date |-> [year |-> 1, month |-> 1, day |-> 1]]

(* date.isoformat() *)
IsoFormat(dt) == [y |-> dt.year, m |-> dt.month, d |-> dt.day]

(* date.__lt__: dates compare as (year, month, day) *)
DateLess(a, b) ==
    \/ a.year < b.year
    \/ a.year = b.year /\ a.month < b.month
    \/ a.year = b.year /\ a.month = b.month /\ a.day < b.day

(***************************************************************************)
(* Transaction                                                             *)
(***************************************************************************)
AllKeys == {"date", "amount", "party", "category", "kind"}

Transaction(dt, amount, party, category, kind) ==
    [date |-> dt, amount |-> amount, party |-> party, category |-> category, kind |-> kind]

NoTransaction == Transaction([year |-> 1, month |-> 1, day |-> 1], 0, "", "", "")

(* Transaction.to_json: a JSON object with all five keys *)
to_json(tx) ==
    [has |-> AllKeys, date |-> IsoFormat(tx.date), amount |-> FloatRepr(tx.amount),
     party |-> tx.party, category |-> tx.category, kind |-> tx.kind]

(* Transaction.from_json: the transaction, or the exception raised *)
from_json(data) ==
    IF "date" \notin data.has THEN [ok |-> FALSE, err |-> "KeyError", tx |-> NoTransaction]
    ELSE IF ~FromIsoFormat(data.date).ok
         THEN [ok |-> FALSE, err |-> "ValueError", tx |-> NoTransaction]
    ELSE IF "amount" \notin data.has
         THEN [ok |-> FALSE, err |-> "KeyError", tx |-> NoTransaction]
    ELSE IF ~PyFloat(data.amount).ok
         THEN [ok |-> FALSE, err |-> "ValueError", tx |-> NoTransaction]
    ELSE IF "kind" \notin data.has
         THEN [ok |-> FALSE, err |-> "KeyError", tx |-> NoTransaction]
    ELSE [ok |-> TRUE, err |-> "none",
          tx |-> Transaction(FromIsoFormat(data.date).date,
                             PyFloat(data.amount).v,
                             IF "party" \in data.has THEN data.party ELSE "",
                             IF "category" \in data.has THEN data.category ELSE "",
                             data.kind)]

(***************************************************************************)
(* FinanceBook                                                             *)
(***************************************************************************)

(* FinanceBook.add *)
add(txs, tx) == Append(txs, tx)

(* sorted(S) for a set of integers *)
RECURSIVE SortedSeq(_)
SortedSeq(S) ==
    IF S = {} THEN <<>>
    ELSE LET lo == CHOOSE x \in S : \A y \in S : x <= y
         IN <<lo>> \o SortedSeq(S \ {lo})

(* sorted(S, reverse=True) for a set of integers *)
SortedDesc(S) ==
    LET up == SortedSeq(S)
    IN [i \in 1..Len(up) |-> up[Len(up) + 1 - i]]

(* all_years with the years in descending order *)
all_years_Descending(txs) ==
    LET years == SortedDesc({txs[i].date.year : i \in 1..Len(txs)})
    IN IF years = <<>> THEN <<CurrentYear>> ELSE years

(* FinanceBook.all_years *)
all_years(txs) ==
    LET years == SortedSeq({txs[i].date.year : i \in 1..Len(txs)})
    IN IF years = <<>> THEN <<CurrentYear>> ELSE years

(* FinanceBook.for_year *)
for_year(txs, year) == SelectSeq(txs, LAMBDA tx : tx.date.year = year)

(* FinanceBook.for_year_and_month; month 0 stands for None *)
for_year_and_month(txs, year, month) ==
    IF month = 0 THEN for_year(txs, year)
    ELSE SelectSeq(txs, LAMBDA tx : tx.date.year = year /\ tx.date.month = month)

ZeroTotals == [m \in 1..12 |-> [income |-> 0, expense |-> 0, net |-> 0]]

(* the accumulation loop of monthly_totals *)
RECURSIVE AccumulateMonths(_, _)
AccumulateMonths(totals, txs) ==
    IF txs = <<>> THEN totals
    ELSE LET tx == Head(txs)
             m == tx.date.month
             next == IF tx.kind = "income"
                     THEN [totals EXCEPT ![m].income = @ + tx.amount]
                     ELSE [totals EXCEPT ![m].expense = @ + tx.amount]
         IN AccumulateMonths(next, Tail(txs))

(* the net of a bucket with the expense added instead of subtracted *)
BucketNet_Added(b) == b.income + b.expense

(* the net of one bucket of monthly_totals *)
BucketNet(b) == b.income - b.expense

(* FinanceBook.monthly_totals *)
monthly_totals(txs, year) ==
    LET totals == AccumulateMonths(ZeroTotals, for_year(txs, year))
    IN [m \in DOMAIN totals |-> [totals[m] EXCEPT !.net = BucketNet(totals[m])]]

(* sum(f[m] for m in f), over the keys of a mapping with integer keys *)
RECURSIVE SumOver(_, _)
SumOver(f, keys) ==
    IF keys = {} THEN 0
    ELSE LET k == CHOOSE x \in keys : \A y \in keys : x <= y
         IN f[k] + SumOver(f, keys \ {k})

(* FinanceBook.yearly_totals *)
yearly_totals(txs, year) ==
    LET mt == monthly_totals(txs, year)
        income == SumOver([m \in DOMAIN mt |-> mt[m].income], DOMAIN mt)
        expense == SumOver([m \in DOMAIN mt |-> mt[m].expense], DOMAIN mt)
    IN [income |-> income, expense |-> expense, net |-> income - expense]

(* tx.category or "(uncategorized)" *)
BucketLabel(category) == IF category = "" THEN "(uncategorized)" ELSE category

(* buckets[label] += amount on a defaultdict(float) kept in insertion order *)
AddToBucket(buckets, label, amount) ==
    IF \E i \in 1..Len(buckets) : buckets[i][1] = label
    THEN [i \in 1..Len(buckets) |->
            IF buckets[i][1] = label THEN <<label, buckets[i][2] + amount>> ELSE buckets[i]]
    ELSE Append(buckets, <<label, amount>>)

(* the accumulation loop of category_totals *)
RECURSIVE AccumulateBuckets(_, _, _)
AccumulateBuckets(buckets, txs, kind) ==
    IF txs = <<>> THEN buckets
    ELSE LET tx == Head(txs)
             next == IF tx.kind = kind
                     THEN AddToBucket(buckets, BucketLabel(tx.category), tx.amount)
                     ELSE buckets
         IN AccumulateBuckets(next, Tail(txs), kind)

(* sorted(items, key=total, reverse=True): stable, larger totals first *)
RECURSIVE SortByTotalDesc(_)
SortByTotalDesc(items) ==
    IF items = <<>> THEN <<>>
    ELSE LET n == Len(items)
             rest == SortByTotalDesc(SubSeq(items, 1, n - 1))
             x == items[n]
             \* x goes after every element whose total is >= its own
             k == Cardinality({i \in 1..Len(rest) : rest[i][2] >= x[2]})
         IN SubSeq(rest, 1, k) \o <<x>> \o SubSeq(rest, k + 1, Len(rest))

(* FinanceBook.category_totals *)
category_totals(txs, year, kind, month) ==
    SortByTotalDesc(AccumulateBuckets(<<>>, for_year_and_month(txs, year, month), kind))

(* sorted(txs, key=lambda t: t.date): stable, earlier dates first *)
RECURSIVE SortByDate(_)
SortByDate(txs) ==
    IF txs = <<>> THEN <<>>
    ELSE LET n == Len(txs)
             rest == SortByDate(SubSeq(txs, 1, n - 1))
             x == txs[n]
             k == Cardinality({i \in 1..Len(rest) : ~DateLess(x.date, rest[i].date)})
         IN SubSeq(rest, 1, k) \o <<x>> \o SubSeq(rest, k + 1, Len(rest))

(* list.remove dropping the last element equal to target instead *)
ListRemove_Last(txs, target) ==
    IF \E i \in 1..Len(txs) : txs[i] = target
    THEN LET i == CHOOSE i \in 1..Len(txs) :
                      txs[i] = target /\ \A j \in (i + 1)..Len(txs) : txs[j] # target
         IN [ok |-> TRUE, list |-> SubSeq(txs, 1, i - 1) \o SubSeq(txs, i + 1, Len(txs))]
    ELSE [ok |-> FALSE, list |-> txs]

(* list.remove(target): drops the first element equal to target, or       *)
(* raises ValueError when there is none                                    *)
ListRemove(txs, target) ==
    IF \E i \in 1..Len(txs) : txs[i] = target
    THEN LET i == CHOOSE i \in 1..Len(txs) :
                      txs[i] = target /\ \A j \in 1..(i - 1) : txs[j] # target
         IN [ok |-> TRUE, list |-> SubSeq(txs, 1, i - 1) \o SubSeq(txs, i + 1, Len(txs))]
    ELSE [ok |-> FALSE, list |-> txs]

(***************************************************************************)
(* Storage                                                                 *)
(***************************************************************************)

(* load_book skipping the records that fail instead of giving up *)
load_book_SkipMalformed(file) ==
    IF file.state # "json" THEN <<>>
    ELSE LET good == SelectSeq(file.items, LAMBDA item : from_json(item).ok)
         IN [i \in 1..Len(good) |-> from_json(good[i]).tx]

(* load_book: DATA_FILE absent, unparseable, or a JSON object *)
load_book(file) ==
    IF file.state = "absent" THEN <<>>
    ELSE IF file.state = "unparseable" THEN <<>>
    ELSE IF \E i \in 1..Len(file.items) : ~from_json(file.items[i]).ok THEN <<>>
    ELSE [i \in 1..Len(file.items) |-> from_json(file.items[i]).tx]

(* save_book writing only the newest transaction *)
save_book_LastOnly(txs) ==
    [state |-> "json",
     items |-> IF txs = <<>> THEN <<>> ELSE <<to_json(txs[Len(txs)])>>]

(* save_book: the whole ledger replaces the file *)
save_book(txs) == [state |-> "json", items |-> [i \in 1..Len(txs) |-> to_json(txs[i])]]

(***************************************************************************)
(* FinanceApp                                                              *)
(***************************************************************************)

(* FinanceApp.refresh_transactions: one row per transaction of the year,   *)
(* by date, each carrying its position in that order as "index"            *)
refresh_transactions(txs, year) ==
    LET shown == SortByDate(for_year(txs, year))
    IN [i \in 1..Len(shown) |->
          [date |-> IsoFormat(shown[i].date), kind |-> shown[i].kind,
           amount |-> Format2(shown[i].amount), party |-> shown[i].party,
           category |-> shown[i].category, index |-> i - 1]]

(* FinanceApp._refresh_year_options: the selector's values and selection *)
refresh_year_options(txs, selected) ==
    LET years == IF all_years(txs) = <<>> THEN <<CurrentYear>> ELSE all_years(txs)
    IN [values |-> years,
        selected |-> IF \E i \in 1..Len(years) : years[i] = selected
                     THEN selected ELSE years[Len(years)]]

(* the removal loop of delete_selected: displayed[idx] is looked up and    *)
(* removed for each index in turn; an IndexError or ValueError ends it     *)
RECURSIVE RemoveEach(_, _, _, _)
RemoveEach(txs, displayed, idxs, done) ==
    IF idxs = <<>> THEN [err |-> "none", list |-> txs, targets |-> done]
    ELSE IF Head(idxs) + 1 > Len(displayed)
         THEN [err |-> "IndexError", list |-> txs, targets |-> done]
    ELSE LET target == displayed[Head(idxs) + 1]
             r == ListRemove(txs, target)
         IN IF r.ok THEN RemoveEach(r.list, displayed, Tail(idxs), Append(done, target))
            ELSE [err |-> "ValueError", list |-> txs, targets |-> Append(done, target)]

DateEntries ==
    { [y |-> 2024, m |-> 1, d |-> 15], [y |-> 2025, m |-> 1, d |-> 15],
      [y |-> 2025, m |-> 2, d |-> 30] }
AmountEntries == {"1", "-1", "abc"}
PartyEntries == {" "}
CategoryEntries == {"", " Food "}
Kinds == {"income", "expense"}

(* the records a data file may hold at start *)
FileRecords ==
    { [has |-> AllKeys, date |-> [y |-> 2024, m |-> 1, d |-> 15], amount |-> "2.0",
       party |-> "Bob", category |-> "Food", kind |-> "expense"],
      [has |-> {"date", "amount", "kind"}, date |-> [y |-> 2024, m |-> 2, d |-> 1],
       amount |-> "1", party |-> "", category |-> "", kind |-> "income"],
      [has |-> AllKeys, date |-> [y |-> 2024, m |-> 2, d |-> 1], amount |-> "-1.0",
       party |-> "", category |-> "Food", kind |-> "expense"],
      [has |-> AllKeys, date |-> [y |-> 2024, m |-> 1, d |-> 15], amount |-> "1.0",
       party |-> "", category |-> "", kind |-> "transfer"],
      [has |-> {"date", "amount", "party", "category"},
       date |-> [y |-> 2024, m |-> 1, d |-> 15], amount |-> "1.0",
       party |-> "", category |-> "", kind |-> ""],
      [has |-> AllKeys, date |-> [y |-> 2024, m |-> 13, d |-> 1], amount |-> "1.0",
       party |-> "", category |-> "", kind |-> "income"],
      [has |-> AllKeys, date |-> [y |-> 2024, m |-> 2, d |-> 1], amount |-> "abc",
       party |-> "", category |-> "", kind |-> "income"] }

RECURSIVE SeqsUpTo(_, _)
SeqsUpTo(S, n) ==
    IF n = 0 THEN {<<>>}
    ELSE LET shorter == SeqsUpTo(S, n - 1)
         IN shorter \cup {Append(q, x) : q \in shorter, x \in S}

(* what DATA_FILE may be when the program starts *)
Files ==
    { [state |-> "absent", items |-> <<>>], [state |-> "unparseable", items |-> <<>>] }
    \cup { [state |-> "json", items |-> q] : q \in SeqsUpTo(FileRecords, MaxFileLen) }

Outcome(op, err, sel, targets) == [op |-> op, err |-> err, sel |-> sel, targets |-> targets]

(* FinanceApp.__init__ *)
Init ==
    /\ disk \in Files
    /\ transactions = load_book(disk)
    /\ LET first == all_years(transactions)[Len(all_years(transactions))]
           opts == refresh_year_options(transactions, first)
       IN /\ year_values = opts.values
          /\ selected_year = opts.selected
          /\ tree = refresh_transactions(transactions, opts.selected)
    /\ last = Outcome("load", "none", {}, <<>>)

(* FinanceApp.add_tx *)
add_tx(kind, dateText, amountText, partyText, categoryText) ==
    /\ Len(transactions) < MaxLen
    /\ IF ~FromIsoFormat(dateText).ok
       THEN /\ last' = Outcome("add_tx", "Invalid date", {}, <<>>)
            /\ UNCHANGED <<transactions, disk, selected_year, year_values, tree>>
       ELSE IF ~PyFloat(amountText).ok
       THEN /\ last' = Outcome("add_tx", "Invalid amount", {}, <<>>)
            /\ UNCHANGED <<transactions, disk, selected_year, year_values, tree>>
       ELSE IF PyFloat(amountText).v < 0
       THEN /\ last' = Outcome("add_tx", "Invalid amount", {}, <<>>)
            /\ UNCHANGED <<transactions, disk, selected_year, year_values, tree>>
       ELSE LET tx == Transaction(FromIsoFormat(dateText).date, PyFloat(amountText).v,
                                  Strip(partyText), Strip(categoryText), kind)
                book == add(transactions, tx)
                opts == refresh_year_options(book, selected_year)
            IN /\ transactions' = book
               /\ disk' = save_book(book)
               /\ year_values' = opts.values
               /\ selected_year' = opts.selected
               /\ tree' = refresh_transactions(book, opts.selected)
               /\ last' = Outcome("add_tx", "none", {}, <<>>)

(* FinanceApp.delete_selected, with the rows `selected` selected and the   *)
(* confirmation answered yes                                               *)
delete_selected(selected) ==
    /\ selected # {}
    /\ LET displayed == SortByDate(for_year(transactions, selected_year))
           indices_to_remove == SortedDesc({tree[i].index : i \in selected})
           r == RemoveEach(transactions, displayed, indices_to_remove, <<>>)
       IN /\ transactions' = r.list
          /\ last' = Outcome("delete_selected", r.err, selected, r.targets)
          /\ IF r.err = "none"
             THEN /\ disk' = save_book(r.list)
                  /\ tree' = refresh_transactions(r.list, selected_year)
             ELSE UNCHANGED <<disk, tree>>
          /\ UNCHANGED <<selected_year, year_values>>

(* <<ComboboxSelected>> on the year selector: refresh_all *)
select_year(year) ==
    /\ selected_year' = year
    /\ tree' = refresh_transactions(transactions, year)
    /\ last' = Outcome("select_year", "none", {}, <<>>)
    /\ UNCHANGED <<transactions, disk, year_values>>

(* FinanceApp.save *)
save ==
    /\ disk' = save_book(transactions)
    /\ last' = Outcome("save", "none", {}, <<>>)
    /\ UNCHANGED <<transactions, selected_year, year_values, tree>>

AddTx ==
    \E kind \in Kinds, dateText \in DateEntries, amountText \in AmountEntries,
       partyText \in PartyEntries, categoryText \in CategoryEntries :
        add_tx(kind, dateText, amountText, partyText, categoryText)

DeleteSelected == \E selected \in SUBSET (1..Len(tree)) : delete_selected(selected)

SelectYear == \E i \in 1..Len(year_values) : select_year(year_values[i])

Save == save

Next == AddTx \/ DeleteSelected \/ SelectYear \/ Save

Spec == Init /\ [][Next]_vars

(***************************************************************************)
(* The removal of line 281 on its own: list.remove applied to a ledger and *)
(* a target that need not be in it.                                        *)
(***************************************************************************)
RemoveTargets ==
    { Transaction([year |-> 2024, month |-> 1, day |-> 15], 1, "", "", "income"),
      Transaction([year |-> 2024, month |-> 1, day |-> 15], 1, "", "Food", "expense"),
      Transaction([year |-> 2025, month |-> 1, day |-> 15], 1, "", "", "income") }

InitRemove ==
    /\ transactions \in SeqsUpTo(RemoveTargets, MaxLen)
    /\ disk = save_book(transactions)
    /\ LET first == all_years(transactions)[Len(all_years(transactions))]
           opts == refresh_year_options(transactions, first)
       IN /\ year_values = opts.values
          /\ selected_year = opts.selected
          /\ tree = refresh_transactions(transactions, opts.selected)
    /\ last = Outcome("load", "none", {}, <<>>)

(* self.book.transactions.remove(target) *)
remove(target) ==
    LET r == ListRemove(transactions, target)
    IN /\ transactions' = r.list
       /\ last' = Outcome("remove", IF r.ok THEN "none" ELSE "ValueError", {}, <<target>>)
       /\ UNCHANGED <<disk, selected_year, year_values, tree>>

Remove == \E target \in RemoveTargets : remove(target)

NextRemove == Remove

SpecRemove == InitRemove /\ [][NextRemove]_vars

(***************************************************************************)
(* Properties                                                              *)
(***************************************************************************)
YearsQueried == {2023, 2024, 2025, 2026}

Elements(q) == {q[i] : i \in 1..Len(q)}

(* C1: for every reachable ledger and every year, monthly_totals has       *)
(* exactly the keys 1..12, every bucket has net = income - expense, and    *)
(* yearly_totals has income and expense equal to the sums of the twelve    *)
(* monthly incomes and expenses, and net = income - expense.               *)
C1_TotalsConsistent ==
    \A year \in YearsQueried :
        LET mt == monthly_totals(transactions, year)
            yt == yearly_totals(transactions, year)
        IN /\ DOMAIN mt = 1..12
           /\ \A m \in DOMAIN mt : mt[m].net = mt[m].income - mt[m].expense
           /\ yt.income = mt[1].income + mt[2].income + mt[3].income + mt[4].income
                          + mt[5].income + mt[6].income + mt[7].income + mt[8].income
                          + mt[9].income + mt[10].income + mt[11].income + mt[12].income
           /\ yt.expense = mt[1].expense + mt[2].expense + mt[3].expense + mt[4].expense
                           + mt[5].expense + mt[6].expense + mt[7].expense + mt[8].expense
                           + mt[9].expense + mt[10].expense + mt[11].expense + mt[12].expense
           /\ yt.net = yt.income - yt.expense

(* a ledger, reached by a delete, with an expense in January and an income *)
(* in February of the same year                                            *)
C1_Witness ==
    /\ last.op = "delete_selected"
    /\ LET mt == monthly_totals(transactions, 2024)
       IN mt[1].expense > 0 /\ mt[2].income > 0 /\ mt[1].net < 0

(* C2: delete_selected removes, for each selected row, exactly one element *)
(* of the ledger, namely the first one equal to the row's transaction on   *)
(* all five fields; every other element, equal duplicates included, stays  *)
(* in its relative order, and for_year shows each removal exactly once.    *)
Shows(row, tx) ==
    /\ row.date = IsoFormat(tx.date)
    /\ row.amount = Format2(tx.amount)
    /\ row.party = tx.party
    /\ row.category = tx.category
    /\ row.kind = tx.kind

OccurrenceRank(txs, i) == Cardinality({j \in 1..i : txs[j] = txs[i]})

KthOf(S, k) == CHOOSE i \in S : Cardinality({j \in S : j <= i}) = k

C2_Step ==
    (last'.op = "delete_selected" /\ transactions' # transactions) =>
        LET sel == last'.sel
            chosen(tx) == Cardinality({i \in sel : Shows(tree[i], tx)})
            kept == {i \in 1..Len(transactions) :
                        OccurrenceRank(transactions, i) > chosen(transactions[i])}
        IN /\ sel \subseteq 1..Len(tree)
           /\ Len(transactions') = Len(transactions) - Cardinality(sel)
           /\ Cardinality(kept) = Len(transactions')
           /\ \A k \in 1..Len(transactions') :
                  transactions'[k] = transactions[KthOf(kept, k)]
           /\ Len(for_year(transactions', selected_year))
                  = Len(for_year(transactions, selected_year)) - Cardinality(sel)
           /\ \A year \in YearsQueried \ {selected_year} :
                  for_year(transactions', year) = for_year(transactions, year)
           /\ Elements(all_years(transactions')) =
                  IF transactions' = <<>> THEN {CurrentYear}
                  ELSE {transactions'[k].date.year : k \in 1..Len(transactions')}

(* C2: every step of delete_selected removes exactly the first equal       *)
(* element per selected row and keeps the others in order.                 *)
C2_RemovesFirstEqual == [][C2_Step]_vars

(* two rows were deleted at once and a duplicate of a deleted transaction  *)
(* is still in the ledger                                                  *)
C2_Witness ==
    /\ last.op = "delete_selected"
    /\ last.err = "none"
    /\ Cardinality(last.sel) = 2
    /\ \E i \in 1..Len(transactions) : transactions[i] \in Elements(last.targets)

RECURSIVE SumAmounts(_)
SumAmounts(txs) == IF txs = <<>> THEN 0 ELSE Head(txs).amount + SumAmounts(Tail(txs))

Labelled(txs, label) ==
    SelectSeq(txs, LAMBDA tx : (IF tx.category = "" THEN "(uncategorized)" ELSE tx.category) = label)

FirstSeen(txs, label) ==
    CHOOSE i \in 1..Len(txs) :
        /\ Labelled(<<txs[i]>>, label) # <<>>
        /\ \A j \in 1..(i - 1) : Labelled(<<txs[j]>>, label) = <<>>

C4_Ordered(ct, matching) ==
    \A i, j \in 1..Len(ct) :
        i < j => \/ ct[i][2] > ct[j][2]
                 \/ /\ ct[i][2] = ct[j][2]
                    /\ FirstSeen(matching, ct[i][1]) < FirstSeen(matching, ct[j][1])

C4_Sums(ct, matching) ==
    \A i \in 1..Len(ct) : ct[i][2] = SumAmounts(Labelled(matching, ct[i][1]))

C4_Labels(ct, matching) ==
    /\ {ct[i][1] : i \in 1..Len(ct)} =
          {IF matching[j].category = "" THEN "(uncategorized)" ELSE matching[j].category :
              j \in 1..Len(matching)}
    /\ \A i, j \in 1..Len(ct) : ct[i][1] = ct[j][1] => i = j

(* C4: the four parts above, for every year, kind and month (0 = None),    *)
(* with every total >= 0.                                                  *)
C4_CategoryTotals ==
    \A year \in YearsQueried, kind \in Kinds, month \in 0..12 :
        LET ct == category_totals(transactions, year, kind, month)
            matching == SelectSeq(for_year_and_month(transactions, year, month),
                                  LAMBDA tx : tx.kind = kind)
        IN /\ C4_Labels(ct, matching)
           /\ C4_Ordered(ct, matching)
           /\ C4_Sums(ct, matching)
           /\ \A i \in 1..Len(ct) : ct[i][2] >= 0

(* C5: all_years returns the distinct years of the ledger's transactions,  *)
(* strictly ascending; on an empty ledger it returns the current year only *)
C5_AllYears ==
    LET years == all_years(transactions)
    IN /\ \A i, j \in 1..Len(years) : i < j => years[i] < years[j]
       /\ transactions # <<>> =>
              Elements(years) = {transactions[i].date.year : i \in 1..Len(transactions)}
       /\ transactions = <<>> => years = <<CurrentYear>>

(* the ledger is empty again after its transactions were deleted *)
C5_Witness ==
    /\ last.op = "delete_selected"
    /\ Cardinality(last.sel) >= 2
    /\ transactions = <<>>

(* C6: load_book is all-or-nothing: an absent or unparseable file, or one  *)
(* with a record that fails to deserialize, gives the empty ledger;        *)
(* otherwise every record is loaded, in file order.                        *)
Malformed(data) ==
    \/ ~({"date", "amount", "kind"} \subseteq data.has)
    \/ ~FromIsoFormat(data.date).ok
    \/ ~PyFloat(data.amount).ok

(* C6: the ledger after load_book is empty or the whole file, never a part *)
C6_LoadAllOrNothing ==
    last.op = "load" =>
        IF disk.state # "json" \/ \E i \in 1..Len(disk.items) : Malformed(disk.items[i])
        THEN transactions = <<>>
        ELSE /\ Len(transactions) = Len(disk.items)
             /\ \A i \in 1..Len(disk.items) :
                    /\ transactions[i].date = FromIsoFormat(disk.items[i].date).date
                    /\ transactions[i].amount = PyFloat(disk.items[i].amount).v
                    /\ transactions[i].kind = disk.items[i].kind
                    /\ transactions[i].party =
                           (IF "party" \in disk.items[i].has THEN disk.items[i].party ELSE "")
                    /\ transactions[i].category =
                           (IF "category" \in disk.items[i].has
                            THEN disk.items[i].category ELSE "")

(* a file whose first record is well-formed and whose second is not *)
C6_Witness ==
    /\ last.op = "load"
    /\ disk.state = "json"
    /\ Len(disk.items) = 2
    /\ ~Malformed(disk.items[1])
    /\ Malformed(disk.items[2])
    /\ transactions = <<>>

(* C7: a record whose kind is missing or is neither "income" nor "expense" *)
(* fails to deserialize, so no transaction of another kind is ever in the  *)
(* ledger or counted in a monthly bucket.                                  *)
C7_KindsValid ==
    \A i \in 1..Len(transactions) : transactions[i].kind \in {"income", "expense"}

(* C8: every step that changes the ledger leaves the persisted transaction *)
(* list equal to the ledger, element for element and in the same order.    *)
C8_Step ==
    transactions' # transactions =>
        /\ disk'.state = "json"
        /\ Len(disk'.items) = Len(transactions')
        /\ \A i \in 1..Len(transactions') :
               /\ disk'.items[i].has = AllKeys
               /\ FromIsoFormat(disk'.items[i].date).date = transactions'[i].date
               /\ PyFloat(disk'.items[i].amount).v = transactions'[i].amount
               /\ disk'.items[i].party = transactions'[i].party
               /\ disk'.items[i].category = transactions'[i].category
               /\ disk'.items[i].kind = transactions'[i].kind

(* C8: every step that changes the ledger rewrites the file to match it.   *)
C8_SavedAfterMutation == [][C8_Step]_vars

(* a delete has left two or more transactions in the ledger and on disk *)
C8_Witness ==
    /\ last.op = "delete_selected"
    /\ Len(transactions) >= 2
    /\ Len(disk.items) = Len(transactions)

(* C9: every transaction in the ledger has amount >= 0, whether it came    *)
(* from the entry form or from the data file.                              *)
C9_AmountsNonNegative ==
    \A i \in 1..Len(transactions) : transactions[i].amount >= 0

(* C10: after every add_tx and delete_selected the years the selector      *)
(* offers are all_years() of the ledger and the selected year is one of    *)
(* them.                                                                   *)
C10_YearSelectorInSync ==
    /\ year_values = all_years(transactions)
    /\ selected_year \in Elements(year_values)

====
